---- MODULE Spec2Model ----
(***************************************************************************)
(* Model of the bounded ordered queue of src/src/queue.rs (Queue, Neighbor) *)
(* and of the way the example and the benchmark drive it: construct once   *)
(* with NonZeroUsize::new(n).unwrap(), then clear and insert repeatedly.   *)
(***************************************************************************)
EXTENDS Integers, Sequences, FiniteSets, TLC

\* Bounds of the model.
MaxCap == 3     \* the constructor is called with n in 0..MaxCap
MaxId == 2      \* identifiers are 1..MaxId
MaxDist == 2    \* comparable distances are 1..MaxDist
MaxIns == 4     \* at most MaxIns insert calls between two clears
MaxOrder == 3   \* SpecOrder, SpecAny: at most MaxOrder insert calls between two clears

\* f32 has one value class that is comparable to nothing, itself included.
NaN == 0

VARIABLES
  pc,         \* "start": no queue yet; "ready": queue built; "panicked": unwrap failed;
              \* "ub": assert_unchecked was violated
  requested,  \* the number handed to NonZeroUsize::new
  capacity,   \* Queue.capacity
  reserved,   \* Queue.neighbors.capacity(), the storage reserved by Vec::with_capacity
  neighbors,  \* Queue.neighbors
  history,    \* ghost: the entries passed to insert since construction / the last clear
  dropped,    \* ghost: the most recent clear removed at least one entry
  shadow      \* ghost: a queue freshly built at the last clear (or at construction)
              \* that has received the same calls since

vars == <<pc, requested, capacity, reserved, neighbors, history, dropped, shadow>>

Ids == 1..MaxId
Dists == 1..MaxDist

\* struct Neighbor { id: u32, dist: f32 }
Neighbor(i, d) == [id |-> i, dist |-> d]

Comparable == {Neighbor(i, d) : i \in Ids, d \in Dists}
NotComparable == {Neighbor(i, NaN) : i \in Ids}

\* f32 `<` and `==`: false as soon as one side is NaN.
FLt(a, b) == a # NaN /\ b # NaN /\ a < b
FEq(a, b) == a # NaN /\ b # NaN /\ a = b

\* u32::cmp
U32Cmp(a, b) == IF a < b THEN "Less" ELSE IF a = b THEN "Equal" ELSE "Greater"

\* Mutant of cmp: the identifier tie-break is dropped.
cmpNoTieBreak(other, neighbor) ==
  IF FLt(other.dist, neighbor.dist) THEN "Less"
  ELSE IF FEq(other.dist, neighbor.dist) THEN "Equal"
  ELSE "Greater"

\* Mutant of cmp: an equal identifier alone makes two entries equal.
cmpIdIsKey(other, neighbor) ==
  IF other.id = neighbor.id THEN "Equal"
  ELSE IF FLt(other.dist, neighbor.dist) THEN "Less"
  ELSE IF FEq(other.dist, neighbor.dist) THEN U32Cmp(other.id, neighbor.id)
  ELSE "Greater"

\* Mutant of cmp: the scores are compared with f32::total_cmp, under which NaN
\* is equal to itself and greater than every other score.
cmpTotalOrder(other, neighbor) ==
  LET key(d) == IF d = NaN THEN MaxDist + 1 ELSE d IN
  IF key(other.dist) < key(neighbor.dist) THEN "Less"
  ELSE IF key(other.dist) = key(neighbor.dist) THEN U32Cmp(other.id, neighbor.id)
  ELSE "Greater"

\* The closure `cmp` of Queue::insert.
cmp(other, neighbor) ==
  IF FLt(other.dist, neighbor.dist) THEN "Less"
  ELSE IF FEq(other.dist, neighbor.dist) THEN U32Cmp(other.id, neighbor.id)
  ELSE "Greater"

\* The loop of slice::binary_search_by: `size` halves, `base` moves to `mid`
\* unless the element at mid compares Greater. Indices are 0-based as in Rust.
RECURSIVE SearchLoop(_, _, _, _)
SearchLoop(s, neighbor, base, size) ==
  IF size > 1
  THEN LET half == size \div 2
           mid == base + half
       IN SearchLoop(s, neighbor,
                     IF cmp(s[mid + 1], neighbor) = "Greater" THEN base ELSE mid,
                     size - half)
  ELSE base

\* Mutant of binary_search_by: an equal element is reported as absent, at its
\* own position (what "treat found as not found" would be).
binary_search_found_is_absent(s, neighbor) ==
  IF Len(s) = 0 THEN [ok |-> FALSE, pos |-> 0]
  ELSE LET base == SearchLoop(s, neighbor, 0, Len(s))
           c == cmp(s[base + 1], neighbor)
       IN [ok |-> FALSE, pos |-> base + (IF c = "Less" THEN 1 ELSE 0)]

\* self.neighbors.binary_search_by( cmp ): Ok(pos) is [ok |-> TRUE], Err(pos) is
\* [ok |-> FALSE].
binary_search_by(s, neighbor) ==
  IF Len(s) = 0 THEN [ok |-> FALSE, pos |-> 0]
  ELSE LET base == SearchLoop(s, neighbor, 0, Len(s))
           c == cmp(s[base + 1], neighbor)
       IN IF c = "Equal" THEN [ok |-> TRUE, pos |-> base]
          ELSE [ok |-> FALSE, pos |-> base + (IF c = "Less" THEN 1 ELSE 0)]

\* if let Err( pos ) = ... && pos < self.capacity.get()
Admitted(s, cap, neighbor) ==
  LET r == binary_search_by(s, neighbor) IN ~r.ok /\ r.pos < cap

\* Mutant of AfterPop: the last entry is never removed.
AfterPopNever(s, cap) == s

\* Mutant of AfterPop: the first (best) entry is removed instead of the last.
AfterPopFront(s, cap) == IF Len(s) = cap THEN SubSeq(s, 2, Len(s)) ELSE s

\* if self.neighbors.len() == self.capacity.get() { _ = self.neighbors.pop(); }
AfterPop(s, cap) == IF Len(s) = cap THEN SubSeq(s, 1, Len(s) - 1) ELSE s

\* Mutant of VecInsert: the element is pushed at the end.
VecInsertAtEnd(s, pos, neighbor) == Append(s, neighbor)

\* Mutant of VecInsert: the element at pos is overwritten, nothing shifts.
VecInsertOverwrite(s, pos, neighbor) ==
  IF pos < Len(s) THEN [s EXCEPT ![pos + 1] = neighbor] ELSE Append(s, neighbor)

\* Vec::insert( pos, neighbor ), pos 0-based: the elements from pos on shift up.
VecInsert(s, pos, neighbor) ==
  SubSeq(s, 1, pos) \o <<neighbor>> \o SubSeq(s, pos + 1, Len(s))

\* The hint assert_unchecked( len < capacity() ) of Queue::insert is violated.
AssertViolated(s, cap, res, neighbor) ==
  Admitted(s, cap, neighbor) /\ ~(Len(AfterPop(s, cap)) < res)

\* Mutant of insert: a full queue gives up its last entry for any entry that
\* is not held, also for one that ranks behind it.
insertReplacesWorst(s, cap, neighbor) ==
  IF Admitted(s, cap, neighbor)
  THEN VecInsert(AfterPop(s, cap), binary_search_by(s, neighbor).pos, neighbor)
  ELSE IF ~binary_search_by(s, neighbor).ok /\ Len(s) = cap
       THEN Append(AfterPop(s, cap), neighbor)
       ELSE s

\* Mutant of insert: on a full queue the last entry is removed and the new one
\* is not stored.
insertDropsOnFull(s, cap, neighbor) ==
  IF Admitted(s, cap, neighbor)
  THEN IF Len(s) = cap THEN AfterPop(s, cap)
       ELSE VecInsert(s, binary_search_by(s, neighbor).pos, neighbor)
  ELSE s

\* Queue::insert on the sequence s of a queue of capacity cap, when the
\* assertion holds.
insert(s, cap, neighbor) ==
  IF Admitted(s, cap, neighbor)
  THEN VecInsert(AfterPop(s, cap), binary_search_by(s, neighbor).pos, neighbor)
  ELSE s

\* Mutant of clear: the first entry survives.
clearKeepsFirst(s) == IF Len(s) = 0 THEN s ELSE <<s[1]>>

\* Queue::clear
clear(s) == <<>>

\* Queue::as_slice
as_slice == neighbors

\* Mutant of NonZeroNew: zero silently falls back to 1.
NonZeroNewFallback(n) == [some |-> TRUE, val |-> IF n = 0 THEN 1 ELSE n]

\* NonZeroUsize::new(n): None for 0.
NonZeroNew(n) == [some |-> n # 0, val |-> n]

\* Mutant of with_capacity: one slot too few is reserved.
with_capacityShort(cap) == [neighbors |-> <<>>, capacity |-> cap, reserved |-> cap - 1]

\* Queue::with_capacity: Vec::with_capacity( capacity.get() ) reserves the
\* requested storage (the least the call guarantees) and holds nothing.
with_capacity(cap) == [neighbors |-> <<>>, capacity |-> cap, reserved |-> cap]

Init ==
  /\ pc = "start"
  /\ requested = 0
  /\ capacity = 0
  /\ reserved = 0
  /\ neighbors = <<>>
  /\ history = <<>>
  /\ dropped = FALSE
  /\ shadow = <<>>

\* Queue::with_capacity( NonZeroUsize::new(n).unwrap() )
Construct ==
  /\ pc = "start"
  /\ \E n \in 0..MaxCap :
       LET c == NonZeroNew(n) IN
       /\ requested' = n
       /\ IF c.some
          THEN LET q == with_capacity(c.val) IN
               /\ pc' = "ready"
               /\ capacity' = q.capacity
               /\ reserved' = q.reserved
               /\ neighbors' = q.neighbors
               /\ shadow' = with_capacity(c.val).neighbors
          ELSE /\ pc' = "panicked"
               /\ UNCHANGED <<capacity, reserved, neighbors, shadow>>
  /\ UNCHANGED <<history, dropped>>

\* One call of queue.insert( neighbor ).
InsertCall(neighbor) ==
  /\ pc = "ready"
  /\ Len(history) < MaxIns
  /\ history' = Append(history, neighbor)
  /\ shadow' = insert(shadow, capacity, neighbor)
  /\ IF AssertViolated(neighbors, capacity, reserved, neighbor)
     THEN /\ pc' = "ub"
          /\ neighbors' \in {neighbors, <<>>, insert(neighbors, capacity, neighbor)}
     ELSE /\ pc' = pc
          /\ neighbors' = insert(neighbors, capacity, neighbor)
  /\ UNCHANGED <<requested, capacity, reserved, dropped>>

\* queue.insert with a comparable score.
Insert == \E neighbor \in Comparable : InsertCall(neighbor)

\* Mutant of Clear: the queue is rebuilt with a capacity of one.
ClearResetsCapacity ==
  /\ pc = "ready"
  /\ neighbors' = clear(neighbors)
  /\ history' = <<>>
  /\ dropped' = (Len(neighbors) > 0)
  /\ shadow' = with_capacity(1).neighbors
  /\ capacity' = 1
  /\ UNCHANGED <<pc, requested, reserved>>

\* queue.clear()
Clear ==
  /\ pc = "ready"
  /\ neighbors' = clear(neighbors)
  /\ history' = <<>>
  /\ dropped' = (Len(neighbors) > 0)
  /\ shadow' = with_capacity(capacity).neighbors
  /\ UNCHANGED <<pc, requested, capacity, reserved>>

Next == Construct \/ Insert \/ Clear

Spec == Init /\ [][Next]_vars

\* The same program with fewer insert calls between two clears, for the
\* properties that compare a run with every rearrangement of its inserts.
InsertOrder == Len(history) < MaxOrder /\ Insert

NextOrder == Construct \/ InsertOrder \/ Clear

SpecOrder == Init /\ [][NextOrder]_vars

\* queue.insert with a score that is not comparable.
InsertNaN ==
  /\ Len(history) < MaxOrder
  /\ \E neighbor \in NotComparable : InsertCall(neighbor)

\* The program with callers that also pass scores that are not comparable.
NextAny == Construct \/ InsertOrder \/ InsertNaN \/ Clear

SpecAny == Init /\ [][NextAny]_vars


(***************************************************************************)
(* Vocabulary of the claims.                                               *)
(***************************************************************************)

\* (score, identifier) lexicographic order on entries with comparable scores.
EntryLt(a, b) == a.dist < b.dist \/ (a.dist = b.dist /\ a.id < b.id)
EntryLe(a, b) == a = b \/ EntryLt(a, b)

Range(s) == {s[i] : i \in 1..Len(s)}
Count(s, e) == Cardinality({i \in 1..Len(s) : s[i] = e})
Last(s) == s[Len(s)]
Prefix(s, k) == SubSeq(s, 1, IF k < Len(s) THEN k ELSE Len(s))
Without(s, i) == SubSeq(s, 1, i - 1) \o SubSeq(s, i + 1, Len(s))
Reverse(s) == [i \in 1..Len(s) |-> s[Len(s) + 1 - i]]

\* s sorted ascending by selection of a least element, every occurrence kept.
RECURSIVE SortAsc(_)
SortAsc(s) ==
  IF Len(s) = 0 THEN <<>>
  ELSE LET m == CHOOSE i \in 1..Len(s) : \A j \in 1..Len(s) : EntryLe(s[i], s[j])
       IN <<s[m]>> \o SortAsc(Without(s, m))

\* The elements of the set S in ascending order, each once.
RECURSIVE SetAsc(_)
SetAsc(S) ==
  IF S = {} THEN <<>>
  ELSE LET m == CHOOSE x \in S : \A y \in S : EntryLe(x, y)
       IN <<m>> \o SetAsc(S \ {m})

\* The entries of h inserted one after the other into s.
RECURSIVE InsertAll(_, _, _)
InsertAll(s, cap, h) ==
  IF Len(h) = 0 THEN s ELSE InsertAll(insert(s, cap, h[1]), cap, Tail(h))

\* A step that is one call of insert, and the entry it was called with.
IsInsertStep == Len(history') = Len(history) + 1
NewEntry == history'[Len(history')]

QueueExists == pc \in {"ready", "ub"}
Full == QueueExists /\ Len(neighbors) = capacity

(***************************************************************************)
(* C1                                                                      *)
(***************************************************************************)

\* C1 as stated: the snapshot is the first min(capacity, n) elements of the n
\* inserted entries sorted ascending by (score, identifier), every insert
\* call counting as one candidate.
C1_TopKOfAllCalls ==
  QueueExists => as_slice = Prefix(SortAsc(history), capacity)

\* C1 as amended: the snapshot is the first min(capacity, d) elements of the d
\* distinct (score, identifier) pairs inserted since construction or the most
\* recent clear, sorted ascending by (score, identifier).
C1_TopKOfDistinct ==
  QueueExists => as_slice = Prefix(SetAsc(Range(history)), capacity)

\* More distinct entries than the capacity were inserted, one of them twice,
\* and an entry inserted earlier has been evicted by a later, smaller one.
C1_Witness ==
  /\ pc = "ready"
  /\ Cardinality(Range(history)) > capacity
  /\ Cardinality(Range(history)) < Len(history)
  /\ history[1] \notin Range(neighbors)
  /\ Last(history) \in Range(neighbors)
  /\ Len(neighbors) = capacity

(***************************************************************************)
(* C2                                                                      *)
(***************************************************************************)

\* C2: in every state reachable by insert and clear calls on a queue of
\* capacity K >= 1, 0 <= length(snapshot) <= K.
C2_LengthBound ==
  QueueExists => (capacity >= 1 /\ 0 <= Len(as_slice) /\ Len(as_slice) <= capacity)

\* A queue that was cleared while it held entries is full again, after more
\* distinct inserts than it can hold, one of them with a score that is not
\* comparable.
C2_Witness ==
  /\ pc = "ready"
  /\ dropped
  /\ Len(neighbors) = capacity
  /\ Cardinality(Range(history)) > capacity
  /\ \E i \in 1..Len(history) : history[i].dist = NaN

(***************************************************************************)
(* C3                                                                      *)
(***************************************************************************)

\* C3: every adjacent pair of the snapshot is ordered by (score, identifier),
\* score first and identifier as tie-break.
C3_Sorted ==
  QueueExists =>
    \A i \in 1..(Len(as_slice) - 1) :
      \/ as_slice[i].dist < as_slice[i + 1].dist
      \/ (as_slice[i].dist = as_slice[i + 1].dist /\ as_slice[i].id <= as_slice[i + 1].id)

\* Entries that arrived in descending order, two of them tied on the score,
\* are held in ascending order.
C3_Witness ==
  /\ pc = "ready"
  /\ Len(history) >= 3
  /\ EntryLt(history[3], history[2]) /\ EntryLt(history[2], history[1])
  /\ Len(neighbors) >= 3
  /\ \E i \in 1..(Len(neighbors) - 1) : neighbors[i].dist = neighbors[i + 1].dist

(***************************************************************************)
(* C4                                                                      *)
(***************************************************************************)

\* C4: insert on a full queue of an entry whose (score, identifier) pair is
\* greater than the pair of every held entry leaves the snapshot identical.
C4_SaturatedNoOp ==
  [][(/\ IsInsertStep
      /\ Len(neighbors) = capacity
      /\ \A i \in 1..Len(neighbors) : EntryLt(neighbors[i], NewEntry))
     => neighbors' = neighbors]_vars

\* The most recent insert offered a full queue an entry greater than every
\* held one (it is not held now, so the queue was as full before the call).
C4_Witness ==
  /\ pc = "ready"
  /\ Len(neighbors) = capacity
  /\ Len(history) > capacity
  /\ \A i \in 1..Len(neighbors) : EntryLt(neighbors[i], Last(history))

(***************************************************************************)
(* C5                                                                      *)
(***************************************************************************)

\* C5: when insert admits into a full queue an entry strictly smaller than the
\* last entry, the previous last entry is gone, the length is still the
\* capacity, and the new entry sits at the index equal to the number of
\* retained entries smaller than it.
C5_Eviction ==
  [][(/\ IsInsertStep
      /\ Len(neighbors) = capacity
      /\ Admitted(neighbors, capacity, NewEntry)
      /\ EntryLt(NewEntry, Last(neighbors)))
     => (/\ Last(neighbors) \notin Range(neighbors')
         /\ Len(neighbors') = capacity
         /\ LET k == Cardinality({i \in 1..Len(neighbors') :
                                    EntryLt(neighbors'[i], NewEntry)})
            IN k < Len(neighbors') /\ neighbors'[k + 1] = NewEntry)]_vars

\* The most recent insert went into the middle of a full queue of capacity 3:
\* an entry inserted before it is gone and it is now the second entry.
C5_Witness ==
  /\ pc = "ready"
  /\ capacity = 3
  /\ Len(neighbors) = 3
  /\ Len(history) = 4
  /\ Cardinality(Range(history)) = 4
  /\ neighbors[2] = Last(history)

(***************************************************************************)
(* C6                                                                      *)
(***************************************************************************)

\* C6 as stated: insert of an entry whose pair equals that of a held entry,
\* with its insertion position below the capacity, stores it, so the snapshot
\* then holds that pair one more time than before.
C6_DuplicateAdmitted ==
  [][(/\ IsInsertStep
      /\ \E i \in 1..Len(neighbors) : neighbors[i] = NewEntry /\ i < capacity)
     => Count(neighbors', NewEntry) = Count(neighbors, NewEntry) + 1]_vars

\* C6 as amended: insert of an entry whose pair equals that of a held entry is
\* reported as found by the search and is a no-op; the snapshot is unchanged
\* and holds that pair exactly once.
C6_DuplicateIgnored ==
  [][(IsInsertStep /\ NewEntry \in Range(neighbors))
     => (/\ binary_search_by(neighbors, NewEntry).ok
         /\ neighbors' = neighbors
         /\ Count(neighbors', NewEntry) = 1)]_vars

\* The same entry was inserted twice in a row into a queue with room left, and
\* the queue holds it once.
C6_Witness ==
  /\ pc = "ready"
  /\ Len(history) >= 2
  /\ history[Len(history)] = history[Len(history) - 1]
  /\ Count(neighbors, Last(history)) = 1
  /\ Len(neighbors) + 1 < capacity

(***************************************************************************)
(* C7                                                                      *)
(***************************************************************************)

\* All orders in which the entries of the sequence h can be arranged.
Orders(h) ==
  {[i \in 1..Len(h) |-> h[f[i]]] :
     f \in {g \in [1..Len(h) -> 1..Len(h)] : \A i, j \in 1..Len(h) : g[i] = g[j] => i = j}}

\* C7: inserting a collection of entries into a fresh queue of the same
\* capacity gives the same snapshot in every order, and in it entries of equal
\* score appear by ascending identifier.
C7_OrderIndependent ==
  QueueExists =>
    /\ \A h \in Orders(history) :
         InsertAll(with_capacity(capacity).neighbors, capacity, h) = as_slice
    /\ \A i, j \in 1..Len(as_slice) :
         (i < j /\ as_slice[i].dist = as_slice[j].dist) => as_slice[i].id <= as_slice[j].id

\* Two entries of equal score arrived in descending identifier order, with a
\* smaller score after them, and are held in ascending identifier order.
C7_Witness ==
  /\ pc = "ready"
  /\ Len(history) = 3
  /\ history[1].dist = history[2].dist /\ history[1].id > history[2].id
  /\ history[3].dist < history[1].dist
  /\ neighbors = <<history[3], history[2], history[1]>>

(***************************************************************************)
(* C8                                                                      *)
(***************************************************************************)

\* C8: clear leaves the snapshot empty, and after it every call leaves the
\* same snapshot as the same calls leave on a freshly constructed queue of the
\* same capacity.
C8_ClearResets ==
  QueueExists =>
    /\ (Len(history) = 0 => Len(as_slice) = 0)
    /\ as_slice = shadow
    /\ as_slice = InsertAll(with_capacity(capacity).neighbors, capacity, history)

\* A queue that held entries when it was cleared has since been refilled to
\* its capacity, with an eviction.
C8_Witness ==
  /\ pc = "ready"
  /\ dropped
  /\ Len(neighbors) = capacity
  /\ Len(history) > capacity
  /\ history[1] \notin Range(neighbors)

(***************************************************************************)
(* C9                                                                      *)
(***************************************************************************)

\* C9: every insert of an entry with a comparable score completes without
\* error, and leaves either the state it found or a sequence that contains
\* the new entry.
C9_InsertTotal ==
  [][IsInsertStep =>
       (/\ pc' = "ready"
        /\ UNCHANGED <<requested, capacity, reserved>>
        /\ \/ neighbors' = neighbors
           \/ NewEntry \in Range(neighbors'))]_vars

\* Both outcomes have happened: the first insert was admitted into a full
\* queue later on and the most recent one was rejected.
C9_Witness ==
  /\ pc = "ready"
  /\ Len(history) >= 3
  /\ Last(history) \notin Range(neighbors)
  /\ history[Len(history) - 1] \in Range(neighbors)
  /\ history[1] \notin Range(neighbors)

(***************************************************************************)
(* C10                                                                     *)
(***************************************************************************)

\* C10: no queue of capacity 0 is constructed and no default capacity stands
\* in for it; every queue has the capacity >= 1 that the constructor was
\* given, and starts empty.
C10_CapacityRefused ==
  /\ (requested = 0 => ~QueueExists)
  /\ (pc = "panicked" => (requested = 0 /\ capacity = 0 /\ Len(neighbors) = 0))
  /\ (QueueExists => (capacity >= 1 /\ capacity = requested))
  /\ ((QueueExists /\ ~dropped /\ Len(history) = 0) => Len(as_slice) = 0)

\* The constructor was given 0 and no queue came to exist.
C10_Witness == pc = "panicked" /\ requested = 0 /\ capacity = 0

\* The constructor was given the largest capacity and the queue is as built.
C10_WitnessBuilt ==
  pc = "ready" /\ requested = MaxCap /\ ~dropped /\ Len(history) = 0

(***************************************************************************)
(* C11                                                                     *)
(***************************************************************************)

\* C11: no insert, admitted or rejected, and no clear changes the capacity of
\* an existing queue; it stays the value set at construction.
C11_CapacityFixed ==
  [][QueueExists => (capacity' = capacity /\ capacity' = requested')]_vars

\* A queue that was cleared while it held entries has since admitted an entry
\* and rejected another, and still has the capacity it was built with.
C11_Witness ==
  /\ pc = "ready"
  /\ dropped
  /\ Len(history) >= 2
  /\ history[1] \in Range(neighbors)
  /\ Last(history) \notin Range(neighbors)
  /\ capacity = requested

(***************************************************************************)
(* C12                                                                     *)
(***************************************************************************)

\* C12: insert of an entry whose identifier equals that of a held entry, with
\* a different score, is handled like any other insert: the snapshot becomes
\* the capacity best of the held entries and the new one, so both entries are
\* held, each at its sorted position, whenever both rank within the capacity
\* best; the earlier entry is neither replaced nor removed on account of its
\* identifier.
C12_SameIdKept ==
  [][(/\ IsInsertStep
      /\ \E i \in 1..Len(neighbors) :
           neighbors[i].id = NewEntry.id /\ neighbors[i].dist # NewEntry.dist)
     => LET best == Prefix(SetAsc(Range(neighbors) \cup {NewEntry}), capacity)
        IN /\ neighbors' = best
           /\ \A i \in 1..Len(neighbors) :
                (neighbors[i].id = NewEntry.id /\ neighbors[i] \in Range(best))
                  => neighbors[i] \in Range(neighbors')]_vars

\* The most recent insert brought an identifier that was already held with a
\* greater score; both entries are held, the new one first, with an entry of
\* another identifier between them.
C12_Witness ==
  /\ pc = "ready"
  /\ Len(history) = 3
  /\ Len(neighbors) = 3
  /\ neighbors[1] = Last(history)
  /\ neighbors[3] = history[1]
  /\ neighbors[1].id = neighbors[3].id
  /\ neighbors[2].id # neighbors[1].id

(***************************************************************************)
(* C13                                                                     *)
(***************************************************************************)

\* C13: the assertion of insert holds in every execution: whatever entry is
\* inserted next, after the conditional removal of the last entry the length
\* is below the reserved storage, and the snapshot never outgrows that storage.
C13_AssertionHolds ==
  /\ pc # "ub"
  /\ QueueExists =>
       /\ Len(neighbors) <= reserved
       /\ \A e \in Comparable \cup NotComparable :
            /\ ~AssertViolated(neighbors, capacity, reserved, e)
            /\ Admitted(neighbors, capacity, e) =>
                 Len(AfterPop(neighbors, capacity)) < reserved

\* The most recent insert was admitted into a full queue: the storage is used
\* up to the reserved amount.
C13_Witness ==
  /\ pc = "ready"
  /\ Len(history) > capacity
  /\ Len(neighbors) = reserved
  /\ Last(history) \in Range(neighbors)
  /\ history[1] \notin Range(neighbors)

(***************************************************************************)
(* C14                                                                     *)
(***************************************************************************)

\* s with e put in at some place, everything else kept in order.
WithOneMore(s, e) ==
  {SubSeq(s, 1, p) \o <<e>> \o SubSeq(s, p + 1, Len(s)) : p \in 0..Len(s)}

\* C14: insert never shortens the sequence. An admitted insert below capacity
\* removes nothing and adds one to the length; an admitted insert into a full
\* queue removes exactly the last entry and leaves the length at capacity; a
\* rejected insert leaves the length unchanged. So the length does not
\* decrease between clears and stays at capacity once it is there.
C14_NeverShortens ==
  [][IsInsertStep =>
       /\ (Admitted(neighbors, capacity, NewEntry) /\ Len(neighbors) < capacity)
            => (/\ Len(neighbors') = Len(neighbors) + 1
                /\ neighbors' \in WithOneMore(neighbors, NewEntry))
       /\ (Admitted(neighbors, capacity, NewEntry) /\ Len(neighbors) = capacity)
            => (/\ Len(neighbors') = capacity
                /\ neighbors' \in WithOneMore(SubSeq(neighbors, 1, Len(neighbors) - 1),
                                              NewEntry))
       /\ ~Admitted(neighbors, capacity, NewEntry) => Len(neighbors') = Len(neighbors)
       /\ Len(neighbors') >= Len(neighbors)
       /\ Len(neighbors) = capacity => Len(neighbors') = capacity]_vars

\* All three cases have happened since the last clear: inserts that filled the
\* queue, one that replaced the last entry and, most recently, a rejected one.
C14_Witness ==
  /\ pc = "ready"
  /\ capacity >= 2
  /\ Len(neighbors) = capacity
  /\ Len(history) = capacity + 2
  /\ history[capacity + 1] \in Range(neighbors)
  /\ Last(history) \notin Range(neighbors)
  /\ \E i \in 1..capacity : history[i] \notin Range(neighbors)

(***************************************************************************)
(* C15                                                                     *)
(***************************************************************************)

\* C15: an admitted insert at position pos leaves every entry at an index
\* below pos in place, moves every retained entry from index i >= pos to
\* index i + 1 unchanged, and removes no entry but the former last one, and
\* that one only when the queue was full. (Indices are 0-based in the claim
\* and 1-based in the sequences.)
C15_ShiftFrame ==
  [][(IsInsertStep /\ Admitted(neighbors, capacity, NewEntry)) =>
       LET pos == binary_search_by(neighbors, NewEntry).pos
           kept == IF Len(neighbors) = capacity THEN Len(neighbors) - 1
                   ELSE Len(neighbors)
       IN /\ pos <= kept
          /\ Len(neighbors') = kept + 1
          /\ \A i \in 1..pos : neighbors'[i] = neighbors[i]
          /\ neighbors'[pos + 1] = NewEntry
          /\ \A i \in (pos + 1)..kept : neighbors'[i + 1] = neighbors[i]]_vars

\* The most recent insert went to the second place of a full queue of capacity
\* 3: one entry stayed before it, one moved up behind it, the last one left.
C15_Witness ==
  /\ pc = "ready"
  /\ capacity = 3
  /\ Len(neighbors) = 3
  /\ Len(history) = 4
  /\ neighbors[2] = history[4]
  /\ {neighbors[1], neighbors[3]} \subseteq {history[1], history[2], history[3]}
  /\ \E i \in 1..3 : history[i] \notin Range(neighbors)

(***************************************************************************)
(* C16                                                                     *)
(***************************************************************************)

AllComparable(s) == \A i \in 1..Len(s) : s[i].dist # NaN

\* C16: when insert is called with a NaN score on a queue that holds only
\* comparable scores, the comparator ranks every held entry Greater, the
\* search yields Err(0), and the entry is admitted at the front, the last
\* entry leaving if the queue is full; the length bound holds and no error is
\* raised.
C16_NaNGoesFirst ==
  [][(IsInsertStep /\ NewEntry.dist = NaN /\ AllComparable(neighbors)) =>
       /\ \A i \in 1..Len(neighbors) : cmp(neighbors[i], NewEntry) = "Greater"
       /\ binary_search_by(neighbors, NewEntry) = [ok |-> FALSE, pos |-> 0]
       /\ Admitted(neighbors, capacity, NewEntry)
       /\ neighbors' = <<NewEntry>> \o
                       (IF Len(neighbors) = capacity
                        THEN SubSeq(neighbors, 1, Len(neighbors) - 1)
                        ELSE neighbors)
       /\ Len(neighbors') <= capacity
       /\ pc' = "ready"]_vars

\* The most recent insert carried a NaN score into a full queue of comparable
\* entries: it is first and an entry inserted earlier is gone.
C16_Witness ==
  /\ pc = "ready"
  /\ capacity >= 2
  /\ Len(history) = capacity + 1
  /\ Len(neighbors) = capacity
  /\ Last(history).dist = NaN
  /\ neighbors[1] = Last(history)
  /\ \A i \in 1..capacity : history[i].dist # NaN
  /\ \A i \in 2..capacity : neighbors[i].dist # NaN

(***************************************************************************)
(* C17                                                                     *)
(***************************************************************************)

\* C17: with comparable scores the snapshot is strictly ascending, so no two
\* of its entries have the same (score, identifier) pair; inserting a pair
\* that is held leaves the queue unchanged, and inserting any entry twice in a
\* row gives the state that inserting it once gives.
C17_StrictAndIdempotent ==
  QueueExists =>
    /\ \A i \in 1..(Len(as_slice) - 1) : EntryLt(as_slice[i], as_slice[i + 1])
    /\ \A i, j \in 1..Len(as_slice) : as_slice[i] = as_slice[j] => i = j
    /\ \A e \in Range(as_slice) : insert(neighbors, capacity, e) = neighbors
    /\ \A e \in Comparable :
         insert(insert(neighbors, capacity, e), capacity, e) = insert(neighbors, capacity, e)

\* The first entry was inserted again later, twice in a row, into a queue that
\* holds it, once, next to other entries.
C17_Witness ==
  /\ pc = "ready"
  /\ Len(history) = 4
  /\ history[3] = history[1] /\ history[4] = history[1]
  /\ history[2] # history[1]
  /\ Len(neighbors) = 2
  /\ Count(neighbors, history[1]) = 1
  /\ capacity > 2

(***************************************************************************)
(* C18                                                                     *)
(***************************************************************************)

\* C18: every entry of the snapshot equals, in identifier and score, an entry
\* passed to insert since construction or since the most recent clear.
C18_Provenance ==
  QueueExists =>
    \A i \in 1..Len(as_slice) :
      \E k \in 1..Len(history) :
        as_slice[i].id = history[k].id /\ as_slice[i].dist = history[k].dist

\* After a clear that removed entries the queue holds entries again, fewer
\* than were inserted since.
C18_Witness ==
  /\ pc = "ready"
  /\ dropped
  /\ Len(neighbors) >= 2
  /\ Len(neighbors) < Cardinality(Range(history))

(***************************************************************************)
(* C19                                                                     *)
(***************************************************************************)

\* C19: an insert leaves at every index that existed before it an entry that
\* is <= the entry that was there, by (score, identifier); the last entry of a
\* full queue never becomes larger, and an entry that a full queue would
\* reject is also rejected after the insert, hence until the next clear.
C19_ThresholdTightens ==
  [][IsInsertStep =>
       /\ Len(neighbors') >= Len(neighbors)
       /\ \A i \in 1..Len(neighbors) : EntryLe(neighbors'[i], neighbors[i])
       /\ Len(neighbors) = capacity =>
            /\ Len(neighbors') = capacity
            /\ EntryLe(Last(neighbors'), Last(neighbors))
            /\ \A e \in Comparable :
                 ~Admitted(neighbors, capacity, e) => ~Admitted(neighbors', capacity, e)]_vars

\* A full queue rejected an entry, then took a smaller one that replaced its
\* last entry, and rejected the first one again.
C19_Witness ==
  /\ pc = "ready"
  /\ Len(neighbors) = capacity
  /\ Len(history) = capacity + 3
  /\ history[capacity + 1] = history[capacity + 3]
  /\ history[capacity + 1] \notin Range(neighbors)
  /\ history[capacity + 2] \in Range(neighbors)
  /\ \E i \in 1..capacity : history[i] \notin Range(neighbors)

====
